---- MODULE Spec2Model ----
(***************************************************************************)
(* A model of rl/algorithms.py (BaseA3CAlgorithm): construction of the     *)
(* sync and gradient pairings, the train() loop run under a monitored      *)
(* session, and the bounded trajectory queue between the background        *)
(* TrajectoryProducer and the training loop.                               *)
(*                                                                         *)
(* Each algorithm instance lives in a graph of its own (create_global_step *)
(* allows one step counter per graph), so an instance has its own variable *)
(* store and step counter.  What instances of one process can share is the *)
(* Python-level queue object.                                              *)
(***************************************************************************)
EXTENDS Integers, Sequences, FiniteSets, TLC

\* ---------------------------------------------------------------- bounds
NumParams == 2          \* variables in a policy's var_list()
TrajLen == 2            \* trajectory_length given to the constructor
MultiNumSteps == 1      \* num_steps of train() when two objects run
MultiMaxTraj == 2       \* trajectories per producer when two objects run
MaxEpisodeLen == 3      \* longest episode of an environment
MaxTraj == 6            \* trajectories one producer collects in a run of the model
MaxNumSteps == 3        \* largest num_steps given to train()
MaxSummaryPeriod == 2   \* largest summary_period given to train()
MaxTrainCalls == 2      \* train() calls on one algorithm object
CkptStep == 2           \* step counter held by the checkpoint file offered to train()
ExplicitMaxsize == 2    \* maxsize of a queue the caller passes explicitly
MaxCheckpointPeriod == 2  \* largest checkpoint_period a call is given
MaxEpisodes == 2        \* largest --num-episodes of an evaluation

\* ------------------------------------------------------- program constants
DefaultMaxsize == 5     \* queue.Queue(maxsize=5), the default argument

None == "None"
Inst == {1, 2}          \* algorithm objects that a process may create
DefaultQueue == <<"default", 1>>      \* the default-argument queue object
OwnQueue(i) == <<"explicit", i>>      \* a queue object passed by the caller of i
NoQueue == <<"none", 1>>
QueueIds == {DefaultQueue} \cup {OwnQueue(i) : i \in Inst}
ParamVals == {0, 1}     \* values of a variable; arithmetic on them wraps around
GradVals == {0, 1, 2}
Rewards == {0, 1}   \* numeric values a gradient component may take
ClipValue == 1          \* preprocess_gradients clips components to this value

VARIABLES
  created,            \* the instances that were constructed
  global_policy,      \* self.global_policy (a policy name)
  local_policy,       \* self.local_policy
  sync_ops,           \* self.sync_ops: <<>> for None, else <<the <<target, source>> pairs>>
  grads_and_vars,     \* self.grads_and_vars: what is left of the zip iterator
  queue_of,           \* the queue object each instance's producer was given
  queues,             \* contents of every queue object
  values,             \* the variable store of each instance's graph
  global_step,        \* self.global_step of each instance's graph
  pc,                 \* position of each instance's train() call
  train_calls,        \* number of train() calls made on each object
  train_op,           \* the pairs the train op of the current call applies
  num_steps,          \* train() argument
  summary_period,     \* train() argument
  step,               \* train() local
  last_summary_step,  \* train() local
  feed,               \* <<the trajectory of the current feed_dict>>, or <<>>
  stop,               \* sess.should_stop()
  started,            \* whether the producer's background thread runs
  episode_len,        \* the environment: timesteps until it reports done
  env_t,              \* the environment: timesteps into the current episode
  produced,           \* history: <<src, seq>> of the trajectories each producer enqueued
  consumed,           \* history: <<src, seq>> of the trajectories each loop took
  start_step,         \* history: the step the current train() call began from
  fed,                \* history: sum of num_timesteps the current call consumed
  sync_runs,          \* history: sync runs of the current call
  iterations,         \* history: iterations begun by the current call
  applied,            \* history: apply_gradients executions of the current call
  increments,         \* history: assign_add executions of the current call
  summaries,          \* history: steps of the summary records written
  ckpt_arg,           \* history: <<checkpoint>> of the last call to reach _managed_session
  error,              \* what the current train() call raised, or "none"
  largest,            \* history: largest num_timesteps the current call consumed
  checkpoint_period,  \* <<checkpoint_period>> of that call, <<>> for None
  hooks_arg,          \* history: the hooks that call was given
  caller_hooks,       \* the list object the caller keeps and may pass as hooks
  session_hooks,      \* the hooks of the session that call opened
  warned,             \* that call logged the missing-saver warning
  \* perform.py, main()
  ev_pc,              \* "start", "for", "while", "done" or "raised"
  ev_num_episodes,    \* args.num_episodes
  ev_i,               \* the loop variable i
  ev_done,            \* done
  ev_rewards,         \* rewards
  ev_mean,            \* mean_reward, as <<numerator, denominator>>
  ev_values,          \* the policy's variables in the session: <<value>>, or <<>>
  ev_env,             \* the environment: "made", "running" or "done"
  ev_t,               \* steps of the environment since its last reset
  ev_resets,          \* history: number of env.reset() calls
  ev_episode,         \* history: the rewards of the steps since the last reset
  ev_after_done       \* history: env.step() was called on an environment not running

\* What _managed_session reads and writes of its hooks.
sessionVars == <<checkpoint_period, hooks_arg, caller_hooks, session_hooks,
                 warned>>

\* The state of the evaluation entry point.
evalVars == <<ev_pc, ev_num_episodes, ev_i, ev_done, ev_rewards, ev_mean,
              ev_values, ev_env, ev_t, ev_resets, ev_episode, ev_after_done>>

vars == <<created, global_policy, local_policy, sync_ops, grads_and_vars,
          queue_of, queues, values, global_step, pc, train_calls, train_op,
          num_steps, summary_period, step, last_summary_step, feed, stop,
          started, episode_len, env_t, produced, consumed, start_step, fed,
          sync_runs, iterations, applied, increments, summaries, ckpt_arg,
          error, largest, checkpoint_period, hooks_arg, caller_hooks,
          session_hooks, warned, ev_pc, ev_num_episodes, ev_i, ev_done,
          ev_rewards, ev_mean, ev_values, ev_env, ev_t, ev_resets, ev_episode,
          ev_after_done>>

\* -------------------------------------------------------------- helpers
Min(a, b) == IF a < b THEN a ELSE b
Max(a, b) == IF a > b THEN a ELSE b

Wrap(x) == x % Cardinality(ParamVals)

\* Python's zip: pairs by position, as long as the shorter argument.
zip(a, b) == [k \in 1..Min(Len(a), Len(b)) |-> <<a[k], b[k]>>]

\* a[:n] on an array of length len has min(n, len) rows.
SliceLen(len, n) == Min(n, len)

IsPrefix(s, t) == Len(s) <= Len(t) /\ \A k \in 1..Len(s) : s[k] = t[k]

\* policy.var_list(): the policy's variables, in a fixed order.
var_list(policy) == [k \in 1..NumParams |-> <<policy, k>>]

\* policy.preprocess_gradients: clips a gradient, keeps its position.
preprocess_gradients(grads) == grads
ClipGrad(g) == IF g > ClipValue THEN ClipValue ELSE g

\* queue.Queue: maxsize <= 0 means unbounded.
maxsize(q) == IF q = DefaultQueue THEN DefaultMaxsize ELSE ExplicitMaxsize
full(q) == maxsize(q) > 0 /\ Len(queues[q]) >= maxsize(q)
empty(q) == queues[q] = <<>>

\* ------------------------------------------------------ construction
\* BaseA3CAlgorithm.__init__: the sync pairs, local_policy or global_policy,
\* the gradients w.r.t. the local variables zipped with the global variables.
\* Variant: the assignments copy local into global.
CtorSyncOpsReversed(local_arg) ==
  IF local_arg # None THEN <<zip(var_list("G"), var_list(local_arg))>> ELSE <<>>
CtorSyncOps(local_arg) ==
  IF local_arg # None THEN <<zip(var_list(local_arg), var_list("G"))>> ELSE <<>>
CtorLocalPolicy(local_arg) == IF local_arg # None THEN local_arg ELSE "G"
\* tf.gradients(loss, xs): one gradient per x, in the order of xs.
gradients(xs) == xs
\* Variant: the gradients are paired with the local variables.
CtorGradsAndVarsLocal(local_arg) ==
  zip(preprocess_gradients(gradients(var_list(CtorLocalPolicy(local_arg)))),
      var_list(CtorLocalPolicy(local_arg)))
CtorGradsAndVars(local_arg) ==
  zip(preprocess_gradients(gradients(var_list(CtorLocalPolicy(local_arg)))),
      var_list("G"))
\* queue=queue.Queue(maxsize=5) is evaluated once, when the class is defined:
\* every call that passes no queue receives that one object.
CtorQueue(i, explicit) == IF explicit THEN OwnQueue(i) ELSE DefaultQueue

VarIds(local_arg) ==
  {<<"G", k>> : k \in 1..NumParams} \cup
  (IF local_arg # None THEN {<<local_arg, k>> : k \in 1..NumParams} ELSE {})
\* Initial variable values: global and local start from different values.
InitValue(v) == IF v[1] = "G" THEN Wrap(v[2]) ELSE Wrap(v[2] + 1)

InitWith(C, EL, HL) ==
  /\ created = C
  /\ \E la \in [C -> {None, "L"}], ex \in [C -> BOOLEAN] :
       /\ global_policy = [i \in Inst |-> IF i \in C THEN "G" ELSE None]
       /\ local_policy = [i \in Inst |-> IF i \in C THEN CtorLocalPolicy(la[i]) ELSE None]
       /\ sync_ops = [i \in Inst |-> IF i \in C THEN CtorSyncOps(la[i]) ELSE <<>>]
       /\ grads_and_vars = [i \in Inst |-> IF i \in C THEN CtorGradsAndVars(la[i]) ELSE <<>>]
       /\ queue_of = [i \in Inst |-> IF i \in C THEN CtorQueue(i, ex[i]) ELSE NoQueue]
       /\ values = [i \in Inst |-> IF i \in C THEN [v \in VarIds(la[i]) |-> InitValue(v)]
                                   ELSE <<>>]
  /\ queues = [q \in QueueIds |-> <<>>]
  /\ global_step = [i \in Inst |-> 0]
  /\ pc = [i \in Inst |-> IF i \in C THEN "idle" ELSE "absent"]
  /\ train_calls = [i \in Inst |-> 0]
  /\ train_op = [i \in Inst |-> <<>>]
  /\ num_steps = [i \in Inst |-> 0]
  /\ summary_period = [i \in Inst |-> 0]
  /\ step = [i \in Inst |-> 0]
  /\ last_summary_step = [i \in Inst |-> 0]
  /\ feed = [i \in Inst |-> <<>>]
  /\ stop = [i \in Inst |-> FALSE]
  /\ started = [i \in Inst |-> FALSE]
  /\ episode_len \in [Inst -> EL]
  /\ \A i \in Inst \ C : episode_len[i] = MaxEpisodeLen
  /\ env_t = [i \in Inst |-> 0]
  /\ produced = [i \in Inst |-> <<>>]
  /\ consumed = [i \in Inst |-> <<>>]
  /\ start_step = [i \in Inst |-> 0]
  /\ fed = [i \in Inst |-> 0]
  /\ sync_runs = [i \in Inst |-> 0]
  /\ iterations = [i \in Inst |-> 0]
  /\ applied = [i \in Inst |-> 0]
  /\ increments = [i \in Inst |-> 0]
  /\ summaries = [i \in Inst |-> <<>>]
  /\ ckpt_arg = [i \in Inst |-> <<>>]
  /\ error = [i \in Inst |-> "none"]
  /\ largest = [i \in Inst |-> 0]
  /\ checkpoint_period = [i \in Inst |-> <<>>]
  /\ hooks_arg = [i \in Inst |-> <<>>]
  /\ caller_hooks \in HL
  /\ session_hooks = [i \in Inst |-> <<>>]
  /\ warned = [i \in Inst |-> FALSE]
  /\ ev_pc = "start"
  /\ ev_num_episodes = 0
  /\ ev_i = 0
  /\ ev_done = FALSE
  /\ ev_rewards = <<>>
  /\ ev_mean = <<0, 1>>
  /\ ev_values = [v \in VarIds(None) |-> <<>>]
  /\ ev_env = "made"
  /\ ev_t = 0
  /\ ev_resets = 0
  /\ ev_episode = <<>>
  /\ ev_after_done = FALSE

\* One algorithm object in the process.
Init == InitWith({1}, 1..MaxEpisodeLen, {<<>>})
\* Two algorithm objects in the process.
InitMulti == InitWith(Inst, {MaxEpisodeLen}, {<<>>})

\* ----------------------------------------------------------- train()
InSession == {"while", "sync", "feed", "run", "read"}

\* The checkpoint files a caller can name: a saved step counter and saved
\* variable values (tf.train.Saver() covers every variable of the graph).
\* A file may also be missing or corrupt (readable = FALSE).
Checkpoints ==
  {[global_step |-> CkptStep, value |-> 1, readable |-> r] : r \in BOOLEAN}
saved_value(ckpt, v) == Wrap(v[2] + ckpt.value)
\* saver.restore(sess, checkpoint): every variable takes its saved value.
restore(store, ckpt) == [v \in DOMAIN store |-> saved_value(ckpt, v)]
\* A session without a checkpoint runs the initializers.
initialize(store) == [v \in DOMAIN store |-> InitValue(v)]

\* saver.restore raises on a missing or corrupt file, and the with block of
\* _managed_session lets the exception leave train().
\* Variant: the failure is swallowed.
RestoreRaisesNever(ckpt) == FALSE
RestoreRaises(ckpt) == ckpt # <<>> /\ ~ckpt[1].readable

\* step = sess.run(self.global_step), before the loop.
\* Variant: the loop counts from zero.
FirstStepZero(gs) == 0
FirstStep(gs) == gs

\* _get_train_op: apply_gradients reads the pairs out of self.grads_and_vars
\* (once: a zip object is an iterator), grouped with the step increment.
GetTrainOp(i) == grads_and_vars[i]

\* Hooks: a checkpoint saver with its save_steps, or any other hook.
CheckpointSaverHook(period) == <<"saver", period>>
OtherHook == <<"other", 0>>
IsSaver(h) == h[1] = "saver"

\* hooks = hooks or []: None and the empty list give a new list, a non-empty
\* list is the caller's own object.
SameObject(supplied) == supplied # <<>>
\* hooks += [CheckpointSaverHook(...)] when checkpoint_period is not None.
WithSaverHook(cp, hooks) ==
  IF cp # <<>> THEN Append(hooks, CheckpointSaverHook(cp[1])) ELSE hooks
\* elif not any(isinstance(h, CheckpointSaverHook) for h in hooks): warn.
\* Variant: the hooks supplied are not looked at.
NeedsWarningNoPeriod(cp, hooks) == cp = <<>>
NeedsWarning(cp, hooks) ==
  cp = <<>> /\ ~\E k \in 1..Len(hooks) : IsSaver(hooks[k])

\* train(): _get_train_op, then _managed_session (hooks, warning, session,
\* restore), then the reads and the producer start that precede the loop.
\* HK: whether the caller passes its list as hooks, or None.
TrainWith(i, NS, SP, CK, CP, HK, maxCalls) ==
  /\ i \in created
  /\ pc[i] \in {"idle", "done", "raised"}
  /\ train_calls[i] < maxCalls
  /\ train_calls' = [train_calls EXCEPT ![i] = @ + 1]
  /\ grads_and_vars' = [grads_and_vars EXCEPT ![i] = <<>>]
  /\ train_op' = [train_op EXCEPT ![i] = GetTrainOp(i)]
  /\ IF GetTrainOp(i) = <<>>
     THEN \* apply_gradients: ValueError("No variables provided."), whatever
          \* the other arguments are
          /\ pc' = [pc EXCEPT ![i] = "raised"]
          /\ error' = [error EXCEPT ![i] = "no_variables"]
          /\ UNCHANGED <<values, global_step, num_steps, summary_period, step,
                         last_summary_step, stop, started, start_step, fed,
                         sync_runs, iterations, applied, increments, largest,
                         ckpt_arg, sessionVars>>
     ELSE \E ns \in NS, sp \in SP, ckpt \in {<<>>} \cup {<<c>> : c \in CK},
             cp \in CP, hk \in HK :
       LET usable == ckpt # <<>> /\ ckpt[1].readable
           gs == IF usable THEN ckpt[1].global_step ELSE 0
           supplied == IF hk THEN caller_hooks ELSE <<>>
           hooks == WithSaverHook(cp, supplied)
       IN
       /\ ckpt_arg' = [ckpt_arg EXCEPT ![i] = ckpt]
       /\ checkpoint_period' = [checkpoint_period EXCEPT ![i] = cp]
       /\ hooks_arg' = [hooks_arg EXCEPT ![i] = supplied]
       /\ caller_hooks' = IF SameObject(supplied) THEN hooks ELSE caller_hooks
       /\ session_hooks' = [session_hooks EXCEPT ![i] = hooks]
       /\ warned' = [warned EXCEPT ![i] = NeedsWarning(cp, supplied)]
       /\ IF RestoreRaises(ckpt)
          THEN \* the error of saver.restore leaves the with block
               /\ pc' = [pc EXCEPT ![i] = "raised"]
               /\ error' = [error EXCEPT ![i] = "restore"]
               /\ UNCHANGED <<values, global_step, num_steps, summary_period,
                              step, last_summary_step, stop, started,
                              start_step, fed, sync_runs, iterations, applied,
                              increments, largest>>
          ELSE /\ values' = [values EXCEPT ![i] =
                               IF usable THEN restore(@, ckpt[1]) ELSE initialize(@)]
               /\ global_step' = [global_step EXCEPT ![i] = gs]
               /\ error' = [error EXCEPT ![i] = "none"]
               /\ num_steps' = [num_steps EXCEPT ![i] = ns]
               /\ summary_period' = [summary_period EXCEPT ![i] = sp]
               /\ step' = [step EXCEPT ![i] = FirstStep(gs)]
               /\ last_summary_step' = [last_summary_step EXCEPT ![i] = FirstStep(gs) - sp]
               /\ stop' = [stop EXCEPT ![i] = FALSE]
               /\ started' = [started EXCEPT ![i] = TRUE]
               /\ start_step' = [start_step EXCEPT ![i] = gs]
               /\ fed' = [fed EXCEPT ![i] = 0]
               /\ largest' = [largest EXCEPT ![i] = 0]
               /\ sync_runs' = [sync_runs EXCEPT ![i] = 0]
               /\ iterations' = [iterations EXCEPT ![i] = 0]
               /\ applied' = [applied EXCEPT ![i] = 0]
               /\ increments' = [increments EXCEPT ![i] = 0]
               /\ pc' = [pc EXCEPT ![i] = "while"]
  /\ feed' = [feed EXCEPT ![i] = <<>>]
  /\ UNCHANGED <<created, global_policy, local_policy, sync_ops, queue_of,
                 queues, produced, consumed, summaries, episode_len,
                 env_t, evalVars>>

\* The calls of the single-object specification pass neither hooks nor a
\* checkpoint period.
Train(i) ==
  TrainWith(i, 0..MaxNumSteps, 1..MaxSummaryPeriod, Checkpoints, {<<>>},
            {FALSE}, MaxTrainCalls)

\* while not sess.should_stop() and step < num_steps
\* Variant: the budget test admits step = num_steps.
LoopConditionOffByOne(i) == ~stop[i] /\ step[i] <= num_steps[i]
LoopCondition(i) == ~stop[i] /\ step[i] < num_steps[i]

LoopCheck(i) ==
  /\ pc[i] = "while"
  /\ IF LoopCondition(i)
     THEN /\ pc' = [pc EXCEPT ![i] = "sync"]
          /\ iterations' = [iterations EXCEPT ![i] = @ + 1]
     ELSE /\ pc' = [pc EXCEPT ![i] = "done"]
          /\ UNCHANGED iterations
  /\ UNCHANGED <<created, global_policy, local_policy, sync_ops, grads_and_vars,
                 queue_of, queues, values, global_step, train_calls, train_op,
                 num_steps, summary_period, step, last_summary_step, feed, stop,
                 started, produced, consumed, start_step, fed, sync_runs,
                 applied, increments, summaries, episode_len,
                 env_t,
                 ckpt_arg, error, largest, sessionVars, evalVars>>

\* sess.run(self.sync_ops): every assign of the group copies its source.
RunSyncOps(store, pairs) ==
  [v \in DOMAIN store |->
     IF \E k \in 1..Len(pairs) : pairs[k][1] = v
     THEN store[pairs[CHOOSE k \in 1..Len(pairs) : pairs[k][1] = v][2]]
     ELSE store[v]]

\* Variant: the sync runs in the first iteration only.
SyncFirstOnly(i) ==
  /\ pc[i] = "sync"
  /\ IF sync_ops[i] # <<>> /\ iterations[i] = 1
     THEN /\ values' = [values EXCEPT ![i] = RunSyncOps(@, sync_ops[i][1])]
          /\ sync_runs' = [sync_runs EXCEPT ![i] = @ + 1]
     ELSE UNCHANGED <<values, sync_runs>>
  /\ pc' = [pc EXCEPT ![i] = "feed"]
  /\ UNCHANGED <<created, global_policy, local_policy, sync_ops, grads_and_vars,
                 queue_of, queues, global_step, train_calls, train_op,
                 num_steps, summary_period, step, last_summary_step, feed, stop,
                 started, produced, consumed, start_step, fed, iterations,
                 applied, increments, summaries, episode_len, env_t,
                 ckpt_arg, error, largest, sessionVars, evalVars>>

\* if self.sync_ops is not None: sess.run(self.sync_ops)
Sync(i) ==
  /\ pc[i] = "sync"
  /\ IF sync_ops[i] # <<>>
     THEN /\ values' = [values EXCEPT ![i] = RunSyncOps(@, sync_ops[i][1])]
          /\ sync_runs' = [sync_runs EXCEPT ![i] = @ + 1]
     ELSE UNCHANGED <<values, sync_runs>>
  /\ pc' = [pc EXCEPT ![i] = "feed"]
  /\ UNCHANGED <<created, global_policy, local_policy, sync_ops, grads_and_vars,
                 queue_of, queues, global_step, train_calls, train_op,
                 num_steps, summary_period, step, last_summary_step, feed, stop,
                 started, produced, consumed, start_step, fed, iterations,
                 applied, increments, summaries, episode_len,
                 env_t,
                 ckpt_arg, error, largest, sessionVars, evalVars>>

\* Variant: next() reads the oldest trajectory and leaves it in the queue.
GetFeedDictPeek(i) ==
  /\ pc[i] = "feed"
  /\ queues[queue_of[i]] # <<>>
  /\ LET trajectory == Head(queues[queue_of[i]]) IN
       /\ feed' = [feed EXCEPT ![i] = <<trajectory>>]
       /\ consumed' = [consumed EXCEPT ![i] = Append(@, <<trajectory.src, trajectory.seq>>)]
       /\ fed' = [fed EXCEPT ![i] = @ + trajectory.num_timesteps]
       /\ largest' = [largest EXCEPT ![i] = Max(@, trajectory.num_timesteps)]
  /\ pc' = [pc EXCEPT ![i] = "run"]
  /\ UNCHANGED <<created, global_policy, local_policy, sync_ops, grads_and_vars,
                 queue_of, queues, values, global_step, train_calls, train_op,
                 num_steps, summary_period, step, last_summary_step, stop,
                 started, produced, start_step, sync_runs, iterations,
                 applied, increments, summaries, episode_len, env_t,
                 ckpt_arg, error, sessionVars, evalVars>>

\* _get_feed_dict: trajectory_producer.next() blocks while the queue is empty
\* and takes the oldest trajectory.
GetFeedDict(i) ==
  /\ pc[i] = "feed"
  /\ ~empty(queue_of[i])
  /\ LET trajectory == Head(queues[queue_of[i]]) IN
       /\ feed' = [feed EXCEPT ![i] = <<trajectory>>]
       /\ consumed' = [consumed EXCEPT ![i] = Append(@, <<trajectory.src, trajectory.seq>>)]
       /\ fed' = [fed EXCEPT ![i] = @ + trajectory.num_timesteps]
       /\ largest' = [largest EXCEPT ![i] = Max(@, trajectory.num_timesteps)]
  /\ queues' = [queues EXCEPT ![queue_of[i]] = Tail(@)]
  /\ pc' = [pc EXCEPT ![i] = "run"]
  /\ UNCHANGED <<created, global_policy, local_policy, sync_ops, grads_and_vars,
                 queue_of, values, global_step, train_calls, train_op,
                 num_steps, summary_period, step, last_summary_step, stop,
                 started, produced, start_step, sync_runs, iterations,
                 applied, increments, summaries, episode_len,
                 env_t,
                 ckpt_arg, error, sessionVars, evalVars>>

\* tf.shape(self.local_policy.inputs)[0] under the feed
\* observations[:trajectory.num_timesteps], observations having TrajLen rows.
\* Variant: the whole observation buffer is fed, unsliced.
batch_sizeUnsliced(trajectory) == TrajLen
batch_size(trajectory) == SliceLen(TrajLen, trajectory.num_timesteps)

\* optimizer.apply_gradients(pairs): each target variable moves against the
\* (preprocessed) gradient taken w.r.t. the paired variable.
ApplyGradients(store, pairs, g) ==
  [v \in DOMAIN store |->
     IF \E k \in 1..Len(pairs) : pairs[k][2] = v
     THEN LET k == CHOOSE j \in 1..Len(pairs) : pairs[j][2] = v
          IN Wrap(store[v] - ClipGrad(g[pairs[k][1]]))
     ELSE store[v]]

\* self.global_step.assign_add(batch_size)
\* Variant: the counter is left as it is.
AssignAddNothing(gs, n) == gs
\* Variant: the counter counts updates.
AssignAddOne(gs, n) == gs + 1
AssignAdd(gs, n) == gs + n

\* step - last_summary_step >= summary_period
\* Variant: a strict comparison.
SummaryDueStrict(i) == step[i] - last_summary_step[i] > summary_period[i]
SummaryDue(i) == step[i] - last_summary_step[i] >= summary_period[i]

\* summary_writer.add_summary(summary, step): step is the local copy of the
\* counter, read at the end of the previous iteration (or before the loop).
\* Variant: the record is keyed by the step of the previous record.
SummaryKeyLast(i) == last_summary_step[i]
SummaryKey(i) == step[i]

\* Variant: a stop request seen before the run cancels the update.
RunTrainOpCancel(i) ==
  /\ pc[i] = "run"
  /\ IF stop[i]
     THEN UNCHANGED <<values, global_step, applied, increments, summaries,
                      last_summary_step>>
     ELSE /\ \E g \in [{train_op[i][k][1] : k \in 1..Len(train_op[i])} -> GradVals] :
               values' = [values EXCEPT ![i] = ApplyGradients(@, train_op[i], g)]
          /\ global_step' = [global_step EXCEPT ![i] = AssignAdd(@, batch_size(feed[i][1]))]
          /\ applied' = [applied EXCEPT ![i] = @ + 1]
          /\ increments' = [increments EXCEPT ![i] = @ + 1]
          /\ IF SummaryDue(i)
             THEN /\ summaries' = [summaries EXCEPT ![i] = Append(@, SummaryKey(i))]
                  /\ last_summary_step' = [last_summary_step EXCEPT ![i] = step[i]]
             ELSE UNCHANGED <<summaries, last_summary_step>>
  /\ pc' = [pc EXCEPT ![i] = "read"]
  /\ UNCHANGED <<created, global_policy, local_policy, sync_ops, grads_and_vars,
                 queue_of, queues, train_calls, train_op, num_steps,
                 summary_period, step, feed, stop, started, produced, consumed,
                 start_step, fed, sync_runs, iterations, episode_len, env_t,
                 ckpt_arg, error, largest, sessionVars, evalVars>>

\* The sess.run of the iteration: [policy_loss, v_loss, summaries, train_op]
\* when a summary is due, train_op alone otherwise.  train_op groups
\* apply_gradients with the step increment.
RunTrainOp(i) ==
  /\ pc[i] = "run"
  /\ \E g \in [{train_op[i][k][1] : k \in 1..Len(train_op[i])} -> GradVals] :
       values' = [values EXCEPT ![i] = ApplyGradients(@, train_op[i], g)]
  /\ global_step' = [global_step EXCEPT ![i] = AssignAdd(@, batch_size(feed[i][1]))]
  /\ applied' = [applied EXCEPT ![i] = @ + 1]
  /\ increments' = [increments EXCEPT ![i] = @ + 1]
  /\ IF SummaryDue(i)
     THEN /\ summaries' = [summaries EXCEPT ![i] = Append(@, SummaryKey(i))]
          /\ last_summary_step' = [last_summary_step EXCEPT ![i] = step[i]]
     ELSE UNCHANGED <<summaries, last_summary_step>>
  /\ pc' = [pc EXCEPT ![i] = "read"]
  /\ UNCHANGED <<created, global_policy, local_policy, sync_ops, grads_and_vars,
                 queue_of, queues, train_calls, train_op, num_steps,
                 summary_period, step, feed, stop, started, produced, consumed,
                 start_step, fed, sync_runs, iterations, episode_len,
                 env_t,
                 ckpt_arg, error, largest, sessionVars, evalVars>>

\* step = sess.run(self.global_step)
ReadStep(i) ==
  /\ pc[i] = "read"
  /\ step' = [step EXCEPT ![i] = global_step[i]]
  /\ pc' = [pc EXCEPT ![i] = "while"]
  /\ UNCHANGED <<created, global_policy, local_policy, sync_ops, grads_and_vars,
                 queue_of, queues, values, global_step, train_calls, train_op,
                 num_steps, summary_period, last_summary_step, feed, stop,
                 started, produced, consumed, start_step, fed, sync_runs,
                 iterations, applied, increments, summaries, episode_len,
                 env_t,
                 ckpt_arg, error, largest, sessionVars, evalVars>>

\* A hook or the coordinator asks the session to stop, at any point of it.
RequestStop(i) ==
  /\ pc[i] \in InSession
  /\ ~stop[i]
  /\ stop' = [stop EXCEPT ![i] = TRUE]
  /\ UNCHANGED <<created, global_policy, local_policy, sync_ops, grads_and_vars,
                 queue_of, queues, values, global_step, pc, train_calls,
                 train_op, num_steps, summary_period, step, last_summary_step,
                 feed, started, produced, consumed, start_step, fed, sync_runs,
                 iterations, applied, increments, summaries, episode_len,
                 env_t,
                 ckpt_arg, error, largest, sessionVars, evalVars>>

\* ------------------------------------------------- TrajectoryProducer
\* The background thread puts one collected trajectory; put blocks while
\* the queue is full.  The end of the episode cuts the trajectory short.
Collect(i) == Min(TrajLen, episode_len[i] - env_t[i])

CanPut(i) == started[i] /\ ~full(queue_of[i])

ProduceUpTo(i, maxTraj, stamped) ==
  /\ CanPut(i)
  /\ Len(produced[i]) < maxTraj
  /\ LET n == Collect(i) IN
       LET trajectory == [src |-> i, seq |-> Len(produced[i]) + 1,
                          num_timesteps |-> n,
                          \* history: the syncs the acting local policy
                          \* had received, where the run records it
                          synced |-> IF stamped THEN sync_runs[i] ELSE 0]
       IN /\ queues' = [queues EXCEPT ![queue_of[i]] = Append(@, trajectory)]
          /\ produced' = [produced EXCEPT ![i] = Append(@, <<trajectory.src, trajectory.seq>>)]
          /\ env_t' = [env_t EXCEPT ![i] = (@ + n) % episode_len[i]]
  /\ UNCHANGED <<created, global_policy, local_policy, sync_ops, grads_and_vars,
                 queue_of, values, global_step, pc, train_calls, train_op,
                 num_steps, summary_period, step, last_summary_step, feed, stop,
                 started, consumed, start_step, fed, sync_runs, iterations,
                 applied, increments, summaries, episode_len,
                 ckpt_arg, error, largest, sessionVars, evalVars>>

Produce(i) == ProduceUpTo(i, MaxTraj, FALSE)

Next ==
  \E i \in Inst :
    \/ Train(i)
    \/ LoopCheck(i)
    \/ Sync(i)
    \/ GetFeedDict(i)
    \/ RunTrainOp(i)
    \/ ReadStep(i)
    \/ RequestStop(i)
    \/ Produce(i)

Spec == Init /\ [][Next]_vars

\* Two algorithm objects, each trained once.
TrainOnce(i) ==
  TrainWith(i, {MultiNumSteps}, {MaxSummaryPeriod}, {}, {<<>>}, {FALSE}, 1)
ProduceFew(i) == ProduceUpTo(i, MultiMaxTraj, FALSE)

NextMulti ==
  \E i \in Inst :
    \/ TrainOnce(i)
    \/ LoopCheck(i)
    \/ Sync(i)
    \/ GetFeedDict(i)
    \/ RunTrainOp(i)
    \/ ReadStep(i)
    \/ RequestStop(i)
    \/ ProduceFew(i)

SpecMulti == InitMulti /\ [][NextMulti]_vars

\* One algorithm object; every trajectory records the syncs that preceded
\* its collection.
ProduceStamped(i) == ProduceUpTo(i, MaxTraj, TRUE)

NextStale ==
  \E i \in Inst :
    \/ Train(i)
    \/ LoopCheck(i)
    \/ Sync(i)
    \/ GetFeedDict(i)
    \/ RunTrainOp(i)
    \/ ReadStep(i)
    \/ RequestStop(i)
    \/ ProduceStamped(i)

SpecStale == Init /\ [][NextStale]_vars

\* One algorithm object whose caller keeps a hooks list and chooses, call by
\* call, whether to pass it and whether to give a checkpoint period.
HookLists == {<<>>, <<OtherHook>>, <<CheckpointSaverHook(MaxCheckpointPeriod)>>}
InitSession == InitWith({1}, {MaxEpisodeLen}, HookLists)
TrainSession(i) ==
  TrainWith(i, {MultiNumSteps}, {MaxSummaryPeriod}, Checkpoints,
            {<<>>} \cup {<<p>> : p \in 1..MaxCheckpointPeriod}, BOOLEAN,
            MaxTrainCalls)

NextSession ==
  \E i \in Inst :
    \/ TrainSession(i)
    \/ LoopCheck(i)
    \/ Sync(i)
    \/ GetFeedDict(i)
    \/ RunTrainOp(i)
    \/ ReadStep(i)
    \/ RequestStop(i)
    \/ ProduceFew(i)

SpecSession == InitSession /\ [][NextSession]_vars

\* One algorithm object trained once, under the scheduling of its two
\* threads: the training loop and the producer each take their next step
\* whenever it stays possible.  Nothing obliges a caller to call train() or a
\* hook to request a stop.  The producer collects for as long as the queue
\* takes trajectories: the loop consumes at most one trajectory per step of
\* the budget and the queue holds at most maxsize more.
MaxProduced == MaxNumSteps + DefaultMaxsize + 1
ProduceForever(i) == ProduceUpTo(i, MaxProduced, FALSE)
TrainFair(i) ==
  TrainWith(i, 0..MaxNumSteps, {MaxSummaryPeriod}, Checkpoints, {<<>>},
            {FALSE}, 1)

NextFair ==
  \E i \in Inst :
    \/ TrainFair(i)
    \/ LoopCheck(i)
    \/ Sync(i)
    \/ GetFeedDict(i)
    \/ RunTrainOp(i)
    \/ ReadStep(i)
    \/ RequestStop(i)
    \/ ProduceForever(i)

Fairness ==
  \A i \in Inst :
    /\ WF_vars(LoopCheck(i))
    /\ WF_vars(Sync(i))
    /\ WF_vars(GetFeedDict(i))
    /\ WF_vars(RunTrainOp(i))
    /\ WF_vars(ReadStep(i))
    /\ WF_vars(ProduceForever(i))

InitFair == InitWith({1}, {MaxEpisodeLen}, {<<>>})
SpecFair == InitFair /\ [][NextFair]_vars /\ Fairness

\* ------------------------------------------------------ perform.py
trainVars == <<created, global_policy, local_policy, sync_ops, grads_and_vars,
               queue_of, queues, values, global_step, pc, train_calls,
               train_op, num_steps, summary_period, step, last_summary_step,
               feed, stop, started, episode_len, env_t, produced, consumed,
               start_step, fed, sync_runs, iterations, applied, increments,
               summaries, ckpt_arg, error, largest, sessionVars>>

\* main() up to the loop: the policy is built, the session is opened and
\* tf.train.Saver().restore(sess, args.checkpoint) gives every variable its
\* saved value; rewards = np.zeros([num_episodes]); mean_reward = 0.
EvalStart ==
  /\ ev_pc = "start"
  /\ \E ne \in 0..MaxEpisodes, ckpt \in Checkpoints :
       IF RestoreRaises(<<ckpt>>)
       THEN /\ ev_pc' = "raised"
            /\ UNCHANGED <<ev_num_episodes, ev_rewards, ev_values>>
       ELSE /\ ev_pc' = "for"
            /\ ev_num_episodes' = ne
            /\ ev_rewards' = [k \in 1..ne |-> 0]
            /\ ev_values' = [v \in DOMAIN ev_values |-> <<saved_value(ckpt, v)>>]
  /\ ev_mean' = <<0, 1>>
  /\ ev_i' = 0
  /\ UNCHANGED <<ev_done, ev_env, ev_t, ev_resets, ev_episode, ev_after_done,
                 trainVars>>

\* for i in range(args.num_episodes): obs = env.reset(); done = False
EvalFor ==
  /\ ev_pc = "for"
  /\ IF ev_i < ev_num_episodes
     THEN /\ ev_env' = "running"
          /\ ev_t' = 0
          /\ ev_resets' = ev_resets + 1
          /\ ev_episode' = <<>>
          /\ ev_done' = FALSE
          /\ ev_pc' = "while"
     ELSE /\ ev_pc' = "done"
          /\ UNCHANGED <<ev_env, ev_t, ev_resets, ev_episode, ev_done>>
  /\ UNCHANGED <<ev_num_episodes, ev_i, ev_rewards, ev_mean, ev_values,
                 ev_after_done, trainVars>>

\* policy.act(obs, sess=sess): a forward pass; the variables read are left
\* as they are.
act(store) == store

\* rewards[i] += rew
\* Variant: the reward of the last step replaces the sum.
AccumulateLast(old, rew) == rew
Accumulate(old, rew) == old + rew

\* while not done: action = policy.act(obs, sess=sess)[0];
\* obs, rew, done, _ = env.step(action); rewards[i] += rew.
\* The environment ends an episode after MaxEpisodeLen steps at the latest.
EvalStep ==
  /\ ev_pc = "while"
  /\ ~ev_done
  /\ \E rew \in Rewards, d \in BOOLEAN :
       /\ (ev_t + 1 >= MaxEpisodeLen) => d
       /\ ev_done' = d
       /\ ev_env' = IF d THEN "done" ELSE "running"
       /\ ev_rewards' = [ev_rewards EXCEPT ![ev_i + 1] = Accumulate(@, rew)]
       /\ ev_episode' = Append(ev_episode, rew)
  /\ ev_t' = ev_t + 1
  /\ ev_after_done' = (ev_after_done \/ ev_env # "running")
  /\ ev_values' = act(ev_values)
  /\ UNCHANGED <<ev_pc, ev_num_episodes, ev_i, ev_mean, ev_resets,
                 trainVars>>

\* mean + 1 / (i + 1) * (reward - mean), on fractions kept unreduced.
RunningMean(mean, i, reward) ==
  <<mean[1] * i + reward * mean[2], mean[2] * (i + 1)>>

\* The loop has seen done: mean_reward += 1 / (i + 1) * (rewards[i] -
\* mean_reward); the episode is logged; next i.
EvalEndEpisode ==
  /\ ev_pc = "while"
  /\ ev_done
  /\ ev_mean' = RunningMean(ev_mean, ev_i, ev_rewards[ev_i + 1])
  /\ ev_i' = ev_i + 1
  /\ ev_pc' = "for"
  /\ UNCHANGED <<ev_num_episodes, ev_done, ev_rewards, ev_values, ev_env,
                 ev_t, ev_resets, ev_episode, ev_after_done, trainVars>>

NextEval ==
  \/ EvalStart
  \/ EvalFor
  \/ EvalStep
  \/ EvalEndEpisode

\* The evaluation process: no algorithm object is constructed.
InitEval == InitWith({}, {MaxEpisodeLen}, {<<>>})
SpecEval == InitEval /\ [][NextEval]_vars

\* ================================================================ claims
GlobalVar(k) == <<"G", k>>
LocalVar(i, k) == <<local_policy[i], k>>
HasLocal(i) == i \in created /\ local_policy[i] # global_policy[i]
InCall(i) == pc[i] \in InSession \cup {"done"}
\* Iterations of the current call that are begun and not yet updated.
Pending(i) == IF pc[i] \in {"sync", "feed", "run"} THEN 1 ELSE 0

\* C1: in a train() call that began at step 0, once every consumed trajectory
\* has been applied the global step counter equals the sum of the
\* num_timesteps of the trajectories consumed (between the pull and the update
\* of an iteration it lacks exactly the pulled trajectory's timesteps).
C1_StepAccounting ==
  \A i \in created :
    (InCall(i) /\ start_step[i] = 0) =>
      global_step[i] =
        fed[i] - (IF pc[i] = "run" THEN feed[i][1].num_timesteps ELSE 0)

\* A finished call from step 0 whose counter is the timestep sum and differs
\* from the number of iterations.
C1_Witness ==
  /\ pc[1] = "done" /\ start_step[1] = 0 /\ applied[1] >= 2
  /\ global_step[1] = fed[1] /\ global_step[1] # applied[1]

\* C2: a step that runs the sync operation leaves every local parameter equal
\* to the global parameter at the same position, and changes no global
\* parameter.
C2_SyncStep ==
  \A i \in created :
    (pc[i] = "sync" /\ pc'[i] = "feed" /\ sync_ops[i] # <<>>) =>
      \A k \in 1..NumParams :
        /\ values'[i][LocalVar(i, k)] = values'[i][GlobalVar(k)]
        /\ values'[i][GlobalVar(k)] = values[i][GlobalVar(k)]
C2_SyncInvariant == [][C2_SyncStep]_vars

\* The sync of a later iteration has just run, after updates moved the global
\* parameters away from their initial values.
C2_Witness ==
  /\ pc[1] = "feed" /\ HasLocal(1) /\ sync_runs[1] >= 2
  /\ \E k \in 1..NumParams : values[1][GlobalVar(k)] # InitValue(GlobalVar(k))
  /\ \A k \in 1..NumParams : values[1][LocalVar(1, k)] = values[1][GlobalVar(k)]

\* C3: with a distinct local policy the sync has run once for every iteration
\* begun, before that iteration's pull and update; with no local policy the
\* local policy is the global policy and no sync ever runs.
C3_SyncOncePerIteration ==
  \A i \in created :
    /\ (sync_ops[i] # <<>>) <=> HasLocal(i)
    /\ InCall(i) =>
         IF HasLocal(i)
         THEN /\ sync_runs[i] = iterations[i] - (IF pc[i] = "sync" THEN 1 ELSE 0)
              /\ applied[i] + (IF pc[i] = "run" THEN 1 ELSE 0) <= sync_runs[i]
         ELSE /\ sync_runs[i] = 0
              /\ local_policy[i] = global_policy[i]

\* The second iteration of a call with a local policy holds its trajectory.
C3_Witness ==
  HasLocal(1) /\ pc[1] = "run" /\ iterations[1] = 2 /\ sync_runs[1] = 2

\* C4: inside a training session with a distinct local policy, a step that
\* changes a local parameter is the sync step; the update step changes none.
C4_LocalStep ==
  \A i \in created :
    (HasLocal(i) /\ pc[i] \in InSession /\
     \E k \in 1..NumParams :
        values'[i][LocalVar(i, k)] # values[i][LocalVar(i, k)])
    => (pc[i] = "sync" /\ pc'[i] = "feed")
C4_LocalWrittenBySyncOnly == [][C4_LocalStep]_vars

\* An update has moved a global parameter away from the local copy.
C4_Witness ==
  /\ HasLocal(1) /\ pc[1] = "read" /\ applied[1] >= 1
  /\ \E k \in 1..NumParams : values[1][LocalVar(1, k)] # values[1][GlobalVar(k)]

\* C5: an iteration begins only with no stop raised and step < num_steps; a
\* call that starts at or above its budget applies nothing and keeps the
\* step counter.
C5_BeginStep ==
  \A i \in created :
    (pc[i] = "while" /\ pc'[i] = "sync") => (~stop[i] /\ step[i] < num_steps[i])
C5_NoWorkAtBudget ==
  \A i \in created :
    (InCall(i) /\ start_step[i] >= num_steps[i]) =>
      /\ iterations[i] = 0 /\ applied[i] = 0 /\ increments[i] = 0
      /\ global_step[i] = start_step[i]
C5_LoopGuard == [][C5_BeginStep]_vars /\ []C5_NoWorkAtBudget

\* A call restored to a step at or above its budget has returned.
C5_Witness ==
  /\ pc[1] = "done" /\ train_calls[1] = 1 /\ start_step[1] = CkptStep
  /\ num_steps[1] <= CkptStep /\ num_steps[1] > 0
  /\ global_step[1] = CkptStep /\ applied[1] = 0

\* C6: the loop leaves only from its condition; every iteration begun gets
\* its gradient application and its step increment exactly once, together,
\* whether or not a stop was raised meanwhile.
C6_ExitStep == \A i \in created : (pc'[i] = "done") => (pc[i] \in {"while", "done"})
C6_Together ==
  \A i \in created :
    InCall(i) => /\ applied[i] = increments[i]
                 /\ applied[i] = iterations[i] - Pending(i)
C6_NoMidIterationCancel == [][C6_ExitStep]_vars /\ []C6_Together

\* A stop was raised inside an iteration and its update was still performed.
C6_Witness ==
  /\ pc[1] = "read" /\ stop[1]
  /\ applied[1] = iterations[1] /\ increments[1] = iterations[1]

\* C7: the update step writes a summary record keyed by the current step and
\* moves the marker to it exactly when step - marker >= summary_period, and
\* otherwise leaves records and marker alone; a call's first iteration writes
\* a record.
C7_RunStep ==
  \A i \in created :
    (pc[i] = "run" /\ pc'[i] = "read") =>
      IF step[i] - last_summary_step[i] >= summary_period[i]
      THEN /\ summaries'[i] = Append(summaries[i], step[i])
           /\ last_summary_step'[i] = step[i]
      ELSE /\ summaries'[i] = summaries[i]
           /\ last_summary_step'[i] = last_summary_step[i]
C7_FirstIteration ==
  \A i \in created :
    (InCall(i) /\ applied[i] >= 1) =>
      /\ \E k \in 1..Len(summaries[i]) : summaries[i][k] = start_step[i]
      /\ last_summary_step[i] = summaries[i][Len(summaries[i])]
C7_SummarySchedule == [][C7_RunStep]_vars /\ []C7_FirstIteration

\* Two updates were applied and only the first wrote a record.
C7_Witness ==
  pc[1] = "read" /\ applied[1] = 2 /\ Len(summaries[1]) = 1

\* C8: no queue holds more than its capacity (5 for the default queue); a
\* running producer can put exactly when its queue is not full, and can put
\* right after the training loop has taken a trajectory; a training loop
\* waiting in next() can proceed exactly when its queue is not empty.
C8_Capacity ==
  /\ Len(queues[DefaultQueue]) <= 5
  /\ \A q \in QueueIds : Len(queues[q]) <= maxsize(q)
C8_Blocking ==
  \A i \in created :
    /\ (started[i] /\ Len(produced[i]) < MaxTraj) =>
         ((ENABLED Produce(i)) <=> Len(queues[queue_of[i]]) < maxsize(queue_of[i]))
    /\ (pc[i] = "feed") =>
         ((ENABLED GetFeedDict(i)) <=> Len(queues[queue_of[i]]) > 0)
C8_TakeStep ==
  \A i \in created :
    (pc[i] = "feed" /\ pc'[i] = "run") =>
      Len(queues'[queue_of[i]]) < maxsize(queue_of[i])
C8_Backpressure == [](C8_Capacity /\ C8_Blocking) /\ [][C8_TakeStep]_vars

\* The default queue is full while its producer has more to put.
C8_Witness ==
  /\ queue_of[1] = DefaultQueue /\ Len(queues[DefaultQueue]) = 5
  /\ started[1] /\ Len(produced[1]) < MaxTraj /\ pc[1] = "feed"

\* C9: what a training loop has consumed is a prefix of what its own
\* producer enqueued.
C9_OwnProducerPrefix ==
  \A i \in created : IsPrefix(consumed[i], produced[i])

\* C11: with a distinct local policy, the trajectory an update is fed was
\* collected under the local parameters copied by that iteration's sync.
C11_FreshTrajectory ==
  \A i \in created :
    (HasLocal(i) /\ pc[i] = "run") => feed[i][1].synced = sync_runs[i]

\* C10: whenever train() has been called, the update it built pairs the
\* gradient w.r.t. local parameter k with global parameter k, for every k.
C10_UpdatePairsEveryCall ==
  \A i \in created :
    (train_calls[i] >= 1) =>
      train_op[i] = [k \in 1..NumParams |-> <<LocalVar(i, k), GlobalVar(k)>>]

\* C12: a train() call whose checkpoint cannot be restored raises at startup:
\* it does not go on from fresh values, starts no producer, pulls no
\* trajectory and applies no update or step increment.
BadCheckpoint(i) == ckpt_arg[i] # <<>> /\ ~ckpt_arg[i][1].readable
C12_CallStep ==
  \A i \in created :
    (train_calls'[i] # train_calls[i] /\ BadCheckpoint(i)') =>
      /\ pc'[i] = "raised"
      /\ started'[i] = started[i]
      /\ queues' = queues /\ consumed'[i] = consumed[i]
      /\ values'[i] = values[i] /\ global_step'[i] = global_step[i]
      /\ applied'[i] = applied[i] /\ increments'[i] = increments[i]
C12_Raised ==
  \A i \in created :
    BadCheckpoint(i) =>
      /\ pc[i] = "raised" /\ error[i] # "none"
      /\ (train_calls[i] = 1 =>
            /\ error[i] = "restore" /\ ~started[i]
            /\ produced[i] = <<>> /\ consumed[i] = <<>>
            /\ global_step[i] = 0 /\ values[i] = initialize(values[i]))
C12_RestoreFailureFatal == [][C12_CallStep]_vars /\ []C12_Raised

\* A first call given an unreadable checkpoint has raised.
C12_Witness ==
  \E i \in created :
    /\ error[i] = "restore" /\ pc[i] = "raised" /\ train_calls[i] = 1
    /\ ~started[i] /\ BadCheckpoint(i)

\* C14: at the start of the loop the global parameters and the step counter
\* are exactly the ones of the checkpoint given, and the loop counts from the
\* saved step; without a checkpoint it counts from 0.
C14_RoundTrip ==
  \A i \in created :
    (pc[i] = "while" /\ iterations[i] = 0) =>
      IF ckpt_arg[i] = <<>>
      THEN step[i] = 0 /\ global_step[i] = 0
      ELSE LET c == ckpt_arg[i][1] IN
             /\ global_step[i] = c.global_step
             /\ step[i] = c.global_step
             /\ \A k \in 1..NumParams :
                  values[i][GlobalVar(k)] = saved_value(c, GlobalVar(k))

\* A call is about to test its loop condition at the restored step, with
\* global parameters that differ from the initial ones.
C14_Witness ==
  \E i \in created :
    /\ pc[i] = "while" /\ iterations[i] = 0 /\ ckpt_arg[i] # <<>>
    /\ step[i] = CkptStep /\ global_step[i] = CkptStep
    /\ \E k \in 1..NumParams :
         values[i][GlobalVar(k)] # InitValue(GlobalVar(k))

\* C15: the summary records are only appended; each is keyed by the value the
\* step counter had before the update of its iteration, and the keys are
\* strictly increasing.
C15_EmitStep ==
  \A i \in created :
    (summaries'[i] # summaries[i]) =>
      /\ summaries'[i] = Append(summaries[i], global_step[i])
      /\ global_step'[i] > global_step[i]
C15_Increasing ==
  \A i \in created :
    \A a, b \in 1..Len(summaries[i]) :
      a < b => summaries[i][a] < summaries[i][b]
C15_SummaryMonotonic == [][C15_EmitStep]_vars /\ []C15_Increasing

\* Two records have been written in one call.
C15_Witness ==
  \E i \in created :
    /\ Len(summaries[i]) >= 2 /\ train_calls[i] = 1
    /\ summaries[i][1] < summaries[i][2]

\* C19 as claimed: a call that has left its loop with the budget reached has
\* num_steps <= step < num_steps + L, L the largest num_timesteps it consumed.
C19_OvershootAnyExit ==
  \A i \in created :
    (pc[i] = "done" /\ step[i] >= num_steps[i]) =>
      step[i] < num_steps[i] + largest[i]

\* C19 amended: the bound holds when the call has run at least one iteration.
C19_Overshoot ==
  \A i \in created :
    (pc[i] = "done" /\ step[i] >= num_steps[i] /\ iterations[i] >= 1) =>
      (num_steps[i] <= step[i] /\ step[i] < num_steps[i] + largest[i])

\* A call has returned strictly above its budget.
C19_Witness ==
  \E i \in created :
    /\ pc[i] = "done" /\ iterations[i] >= 1 /\ ~stop[i]
    /\ step[i] > num_steps[i] /\ largest[i] = TrajLen

\* C13: a call that enters the managed session logs the warning exactly when
\* it has no checkpoint_period and was given no checkpoint-saver hook, and
\* then still opens its session and trains; with a checkpoint_period the
\* session gets the hooks given plus one saver hook of that period, and no
\* warning.
C13_SaverWarning ==
  \A i \in created :
    (train_calls[i] >= 1 /\ error[i] # "no_variables") =>
      /\ warned[i] <=>
           (checkpoint_period[i] = <<>> /\
            \A k \in 1..Len(hooks_arg[i]) : ~IsSaver(hooks_arg[i][k]))
      /\ (warned[i] /\ ~BadCheckpoint(i)) => pc[i] \in InSession \cup {"done"}
      /\ checkpoint_period[i] = <<>> => session_hooks[i] = hooks_arg[i]
      /\ checkpoint_period[i] # <<>> =>
           /\ ~warned[i]
           /\ session_hooks[i] =
                Append(hooks_arg[i], CheckpointSaverHook(checkpoint_period[i][1]))

\* A call given only another hook has warned and is training.
C13_Witness ==
  \E i \in created :
    /\ warned[i] /\ pc[i] = "run" /\ hooks_arg[i] = <<OtherHook>>
    /\ session_hooks[i] = <<OtherHook>>

\* C20: no train() call changes the list the caller passed as hooks.
C20_Step == caller_hooks' = caller_hooks
C20_CallerHooksKept == [][C20_Step]_vars

\* C16: under fair scheduling a training loop waiting in next() eventually
\* gets a trajectory, and a producer waiting on a full queue is eventually
\* unblocked, also after the training loop has stopped.
WaitsInNext(i) ==
  IF i \in created THEN pc[i] = "feed" /\ empty(queue_of[i]) ELSE FALSE
WaitsOnFullQueue(i) ==
  IF i \in created THEN started[i] /\ full(queue_of[i]) ELSE FALSE
C16_NoIndefiniteBlock ==
  \A i \in Inst :
    /\ WaitsInNext(i) ~> (pc[i] = "run")
    /\ WaitsOnFullQueue(i) ~> ~WaitsOnFullQueue(i)

\* C17: under fair scheduling, with trajectories of at least one timestep,
\* a train() call that has entered its session leaves its loop, and has left
\* it only with the step counter at or above the budget or a stop raised.
C17_Exit ==
  \A i \in created :
    pc[i] = "done" => (stop[i] \/ step[i] >= num_steps[i])
C17_Terminates ==
  /\ \A i \in Inst : (pc[i] \in InSession) ~> (pc[i] = "done")
  /\ []C17_Exit

\* A call has left its loop on the budget alone, after several iterations.
C17_Witness ==
  \E i \in created :
    /\ pc[i] = "done" /\ ~stop[i] /\ iterations[i] >= 2
    /\ step[i] >= num_steps[i] /\ num_steps[i] = MaxNumSteps

RECURSIVE SumSeq(_)
SumSeq(q) == IF q = <<>> THEN 0 ELSE Head(q) + SumSeq(Tail(q))

\* C18: the evaluation restores the checkpoint before it touches the
\* environment, resets once per episode, steps only a running environment
\* and until done, records for each episode the sum of its own step rewards,
\* runs exactly num_episodes episodes and leaves the policy's variables as
\* restored.
C18_State ==
  /\ (ev_env # "made") =>
       /\ ev_pc \in {"for", "while", "done"}
       /\ \A v \in DOMAIN ev_values : ev_values[v] # <<>>
  /\ ev_pc \in {"for", "while", "done"} =>
       /\ ev_resets = ev_i + (IF ev_pc = "while" THEN 1 ELSE 0)
       /\ ev_i <= ev_num_episodes
       /\ Len(ev_rewards) = ev_num_episodes
  /\ ~ev_after_done
  /\ ev_pc = "while" => ev_rewards[ev_i + 1] = SumSeq(ev_episode)
  /\ ev_pc = "done" => (ev_i = ev_num_episodes /\ ev_resets = ev_num_episodes)
C18_Step ==
  /\ (ev_i' # ev_i /\ ev_pc # "start") =>
       /\ ev_env = "done"
       /\ ev_rewards[ev_i + 1] = SumSeq(ev_episode)
  /\ \A k \in 1..ev_i : (ev_pc # "start") => ev_rewards'[k] = ev_rewards[k]
  /\ (ev_pc # "start") => ev_values' = ev_values
C18_Evaluation == []C18_State /\ [][C18_Step]_vars

\* An evaluation of two episodes has ended, the first of several steps and
\* with a reward above that of any single step.
C18_Witness ==
  /\ ev_pc = "done" /\ ev_num_episodes = MaxEpisodes
  /\ ev_rewards[1] > 1 /\ ev_resets = MaxEpisodes
====
